---------------------------- MODULE Spec2Model ----------------------------
(***************************************************************************)
(* Model of Sources/CResolvHelpers/CResolvHelpers.c: initializeDNS4 and    *)
(* initializeDNS6.  Each function mallocs a resolver state, runs           *)
(* res_ninit on it, and either returns a member of the local union         *)
(* `servers` at once (res_ninit < 0) or after res_getservers(res,          *)
(* &servers, 1) has filled it.                                             *)
(*                                                                         *)
(* A union res_sockaddr_union is modelled by three parts: the family tag,  *)
(* `lo` (the rest of the bytes the sin member covers) and `hi` (the bytes  *)
(* only the sin6 member covers).  Storage that was never written holds an  *)
(* indeterminate value: reading it yields any value of the union.          *)
(*                                                                         *)
(* The operating system is modelled by its configured nameserver list      *)
(* (nsaddr_list, fixed during a behaviour, any bounded list at the start)  *)
(* and by the outcome of each res_ninit call, which is an input of that    *)
(* call.  res_getservers copies whole entries of the list into the         *)
(* caller's buffer.                                                        *)
(*                                                                         *)
(* A behaviour makes up to MaxCalls calls, numbered in the order they      *)
(* start; any of them may overlap (callers on different threads).  The     *)
(* steps of a call that touch only its locals are taken together with the  *)
(* library call before them; malloc, res_ninit and res_getservers are the  *)
(* points where calls interleave.                                          *)
(***************************************************************************)
EXTENDS Integers, Sequences, FiniteSets

VARIABLES
    nsaddr_list,      \* OS: the configured nameservers, in order
    heap,             \* the malloc heap: one block per handle
    pc,               \* per call: its position
    op,               \* per call: which function is running
    res,              \* per call: local `res` (a handle, or NULL)
    rc,               \* per call: the value res_ninit returned
    ninitCalls,       \* per call in flight: res_ninit invocations so far
    getserversCalls,  \* per call in flight: res_getservers invocations so far
    last              \* the most recent return: function, rc, value returned,
                      \* and the library calls that call made

vars == <<nsaddr_list, heap, pc, op, res, rc, ninitCalls, getserversCalls,
          last>>

---------------------------------------------------------------------------
(* Bounds *)

MaxCalls == 3
MaxServers == 2

---------------------------------------------------------------------------
(* Values *)

NULL == 0

Calls == 1..MaxCalls
\* Nothing is ever freed: one block per call is all the heap that is used.
Handles == 1..MaxCalls
Ops == {"initializeDNS4", "initializeDNS6"}

Family == {"AF_UNSPEC", "AF_INET", "AF_INET6"}

\* What a run of bytes of a socket address can hold: all zero, or the bytes
\* of a configured address and port (which are copied, never inspected).
Bytes == {"zero", "addr"}

\* union res_sockaddr_union: every value the storage can hold.
Unions == [family : Family, lo : Bytes, hi : Bytes]

\* Storage that has been declared and never written.
Indeterminate == [family |-> "indeterminate", lo |-> "zero", hi |-> "zero"]

\* The entries the OS can hold: an IPv4 server occupies the sin member only
\* (the rest of the zeroed resolver state stays zero), an IPv6 server the
\* whole sin6 member.
Entries ==
    {[family |-> "AF_INET", lo |-> "addr", hi |-> "zero"],
     [family |-> "AF_INET6", lo |-> "addr", hi |-> "addr"]}

ServerLists == UNION {[1..n -> Entries] : n \in 0..MaxServers}

\* The .sin member of a union: the family tag and the low part.
sin(u) == [sin_family |-> u.family, sin_data |-> u.lo]

\* The .sin6 member of a union: the family tag and both parts.
sin6(u) == [sin6_family |-> u.family, sin6_data |-> <<u.lo, u.hi>>]

\* `return servers.sin;` in initializeDNS4, `return servers.sin6;` in
\* initializeDNS6.
member(f, u) == IF f = "initializeDNS4" THEN sin(u) ELSE sin6(u)

\* The values a read of union storage can yield.
Read(u) == IF u = Indeterminate THEN Unions ELSE {u}

\* `union res_sockaddr_union servers;`: a buffer of one union, declared
\* without an initialiser.
servers == <<Indeterminate>>

NoReturn == [op |-> "none", rc |-> 0, value |-> [none |-> TRUE],
             ninitCalls |-> 0, getserversCalls |-> 0]

---------------------------------------------------------------------------
(* The heap and the OS resolver *)

FreeBlock == [st |-> "free", ns |-> <<>>]
RawBlock == [st |-> "raw", ns |-> <<>>]
\* A block whose only pointer is gone: still allocated, its contents out of
\* reach.
LostBlock == [st |-> "lost", ns |-> <<>>]

\* A mutant: the resolver state is one static block shared by every call.
malloc_shared(hp) == {CHOOSE h \in Handles : \A g \in Handles : h <= g}
\* A mutant: the allocator does not check that a block is in use.
malloc_any(hp) == Handles \cup {NULL}
\* malloc(sizeof(struct __res_state)): a block that is not in use (the
\* lowest one: blocks are interchangeable), or NULL.
malloc(hp) ==
    {h \in Handles : /\ hp[h].st = "free"
                     /\ \A g \in Handles : hp[g].st = "free" => h <= g}
    \cup {NULL}

\* res_ninit(res): the value it returns and the state it leaves in *res.
res_ninit(ok, list) ==
    IF ok THEN [rc |-> 0, state |-> [st |-> "loaded", ns |-> list]]
    ELSE [rc |-> -1, state |-> [st |-> "failed", ns |-> <<>>]]

Min(a, b) == IF a < b THEN a ELSE b

\* res_getservers(res, &servers, cnt): the first min(cnt, nscount) entries
\* are copied into the buffer, the rest of the buffer is left as it was.
res_getservers(statp, set, cnt) ==
    [i \in 1..Len(set) |->
        IF i <= Min(cnt, Len(statp.ns)) THEN statp.ns[i] ELSE set[i]]

\* A mutant: the function asks for two entries and returns the last one
\* written.
Queried_last(statp) ==
    LET set == res_getservers(statp, <<Indeterminate, Indeterminate>>, 2)
    IN  IF Len(statp.ns) >= 2 THEN set[2] ELSE set[1]
\* res_getservers(res, &servers, 1); ... servers: the buffer element the
\* function goes on to return a member of.
Queried(statp) == res_getservers(statp, servers, 1)[1]

\* A mutant: the early return on failure is missing.
ReturnsEarly_never(r) == FALSE
\* if(res_ninit(res) < 0) { return ...; }
ReturnsEarly(r) == r < 0

---------------------------------------------------------------------------
(* Actions *)

\* A null dereference ends the process: every thread stops and the memory
\* of the process is gone.
Running == \A c \in Calls : pc[c] # "crashed"

Crash ==
    /\ pc' = [c \in Calls |-> "crashed"]
    /\ op' = [c \in Calls |-> "none"]
    /\ res' = [c \in Calls |-> NULL]
    /\ rc' = [c \in Calls |-> 0]
    /\ ninitCalls' = [c \in Calls |-> 0]
    /\ getserversCalls' = [c \in Calls |-> 0]
    /\ heap' = [h \in Handles |-> FreeBlock]
    /\ UNCHANGED last

Init ==
    /\ nsaddr_list \in ServerLists
    /\ heap = [h \in Handles |-> FreeBlock]
    /\ pc = [c \in Calls |-> "start"]
    /\ op = [c \in Calls |-> "none"]
    /\ res = [c \in Calls |-> NULL]
    /\ rc = [c \in Calls |-> 0]
    /\ ninitCalls = [c \in Calls |-> 0]
    /\ getserversCalls = [c \in Calls |-> 0]
    /\ last = NoReturn

\* `return servers.sin;` / `return servers.sin6;`: call c
\* returns the member of buffer element u; its locals go out of scope, the
\* block res points to is not freed.
Return(c, r, u, inits, queries) ==
    /\ last' = [op |-> op[c], rc |-> r, value |-> member(op[c], u),
                ninitCalls |-> inits, getserversCalls |-> queries]
    /\ ninitCalls' = [ninitCalls EXCEPT ![c] = 0]
    /\ getserversCalls' = [getserversCalls EXCEPT ![c] = 0]
    /\ pc' = [pc EXCEPT ![c] = "done"]
    /\ op' = [op EXCEPT ![c] = "none"]
    /\ res' = [res EXCEPT ![c] = NULL]
    /\ rc' = [rc EXCEPT ![c] = 0]
    /\ heap' = [heap EXCEPT ![res[c]] = LostBlock]

\* Function entry: the locals are declared and
\* res = malloc(sizeof(struct __res_state)).
Enter(c, f) ==
    /\ Running
    /\ pc[c] = "start"
    /\ \A d \in Calls : d < c => pc[d] # "start"
    /\ \E p \in malloc(heap) :
        /\ res' = [res EXCEPT ![c] = p]
        /\ heap' = IF p = NULL THEN heap ELSE [heap EXCEPT ![p] = RawBlock]
    /\ op' = [op EXCEPT ![c] = f]
    /\ pc' = [pc EXCEPT ![c] = "ninit"]
    /\ UNCHANGED <<nsaddr_list, rc, ninitCalls, getserversCalls, last>>

\* if(res_ninit(res) < 0) { return servers.sin; }: res_ninit writes through
\* res, so a NULL res is a null dereference; on failure the function
\* returns the member of the buffer nothing has written.
Ninit(c, ok) ==
    /\ Running
    /\ pc[c] = "ninit"
    /\ IF res[c] = NULL
       THEN Crash
       ELSE LET r == res_ninit(ok, nsaddr_list) IN
            /\ IF ReturnsEarly(r.rc)
               THEN \E u \in Read(servers[1]) :
                        Return(c, r.rc, u, ninitCalls[c] + 1,
                               getserversCalls[c])
               ELSE /\ heap' = [heap EXCEPT ![res[c]] = r.state]
                    /\ rc' = [rc EXCEPT ![c] = r.rc]
                    /\ ninitCalls' = [ninitCalls EXCEPT ![c] = @ + 1]
                    /\ pc' = [pc EXCEPT ![c] = "getservers"]
                    /\ UNCHANGED <<op, res, getserversCalls, last>>
    /\ UNCHANGED nsaddr_list

\* res_getservers(res, &servers, 1); return servers.sin;
Getservers(c) ==
    /\ Running
    /\ pc[c] = "getservers"
    /\ \E u \in Read(Queried(heap[res[c]])) :
            Return(c, rc[c], u, ninitCalls[c], getserversCalls[c] + 1)
    /\ UNCHANGED nsaddr_list

Next ==
    \/ \E c \in Calls, f \in Ops : Enter(c, f)
    \/ \E c \in Calls, ok \in BOOLEAN : Ninit(c, ok)
    \/ \E c \in Calls : Getservers(c)

Spec == Init /\ [][Next]_vars

---------------------------------------------------------------------------
(* Vocabulary of the properties *)

\* The most recent return is a return of one of the two functions.
Returned == last.op \in Ops

\* The address family each function is asked for.
FamilyOf(f) == IF f = "initializeDNS4" THEN "AF_INET" ELSE "AF_INET6"

\* The address-family field of a returned structure.
FamilyField(f, v) == IF f = "initializeDNS4" THEN v.sin_family ELSE v.sin6_family

\* A union with all bytes zero, and the all-zero structure of the
\* function's return type.
ZeroUnion == [family |-> "AF_UNSPEC", lo |-> "zero", hi |-> "zero"]
ZeroValue(f) == member(f, ZeroUnion)

\* Both an IPv4 and an IPv6 nameserver are configured.
DualStack ==
    /\ \E i \in 1..Len(nsaddr_list) : nsaddr_list[i].family = "AF_INET"
    /\ \E i \in 1..Len(nsaddr_list) : nsaddr_list[i].family = "AF_INET6"

\* Call c is between its malloc and its return.
InFlight(c) == pc[c] \in {"ninit", "getservers"}

\* Call c returns in this step.
Returns(c) == InFlight(c) /\ pc'[c] = "done"

\* What a call of f returns when it runs alone and res_ninit returns r:
\* the member of the first configured entry, or, where the code returns
\* storage nothing wrote, any value of the return type.
Alone(f, r) ==
    IF r = 0 /\ Len(nsaddr_list) >= 1
    THEN {member(f, nsaddr_list[1])}
    ELSE {member(f, u) : u \in Unions}

---------------------------------------------------------------------------
(* Claims *)

\* C1: whenever res_ninit reports failure, the structure either function
\* returns is all-zero.  (Stated as the claim states it; the code returns
\* the uninitialised `servers`.)
C1_ZeroOnInitFailure ==
    (Returned /\ last.rc < 0) => last.value = ZeroValue(last.op)

\* C2: when initialisation succeeds and at least one nameserver is
\* configured, the family field of the returned structure is the family the
\* function is asked for, whatever the family of the first entry.
C2_FamilyMatchesRequested ==
    (Returned /\ last.rc = 0 /\ Len(nsaddr_list) >= 1)
        => FamilyField(last.op, last.value) = FamilyOf(last.op)

\* C3: when initialisation succeeds and no nameserver is configured, the
\* returned structure is zero-valued.
C3_ZeroOnNoServers ==
    (Returned /\ last.rc = 0 /\ nsaddr_list = <<>>)
        => last.value = ZeroValue(last.op)

\* C4: two consecutive calls of the same function under the same OS
\* configuration (the same res_ninit outcome, the same server list) return
\* the same value.
C4_SameConfigSameResult ==
    [][\A c \in Calls :
          (Returns(c) /\ Returned /\ last'.op = last.op /\ last'.rc = last.rc)
              => last'.value = last.value]_vars

\* C5: on a dual-stack configuration, a successful call that returns after
\* a call of the other function whose initialisation failed returns the
\* member of the first configured entry: the failed call left nothing
\* behind that changes it.
C5_FailureOfOtherLeavesResult ==
    [][\A c \in Calls :
          (/\ Returns(c)
           /\ Returned /\ last.rc < 0 /\ last.op # op[c]
           /\ last'.rc = 0 /\ DualStack)
              => last'.value = member(op[c], nsaddr_list[1])]_vars

\* C5 witness: a call of one function has failed and returned while a call
\* of the other function, initialised on a dual-stack configuration, is
\* about to query and return.
C5_Witness ==
    /\ Returned /\ last.rc < 0 /\ DualStack
    /\ \E c \in Calls : pc[c] = "getservers" /\ op[c] # last.op

\* C6: once every call has returned, no resolver-state block is still
\* allocated.
C6_NoBlockOutlivesCall ==
    (\A c \in Calls : ~InFlight(c)) => \A h \in Handles : heap[h].st = "free"

\* C7: res_getservers is invoked only on a handle res_ninit has been called
\* on and reported success for; after a failed res_ninit it is not invoked;
\* every call that returns has invoked res_ninit once and res_getservers at
\* most once.
C7_InitBeforeQuery ==
    /\ \A c \in Calls :
        pc[c] = "getservers" =>
            /\ ninitCalls[c] = 1 /\ getserversCalls[c] = 0
            /\ rc[c] = 0
            /\ res[c] # NULL /\ heap[res[c]].st = "loaded"
    /\ Returned =>
        /\ last.ninitCalls = 1
        /\ last.getserversCalls <= 1
        /\ last.rc < 0 => last.getserversCalls = 0
        /\ last.getserversCalls = 1 => last.rc = 0

\* C7 witness: a call has returned on the failure path without a query
\* while another call, whose initialisation succeeded, is about to query.
C7_Witness ==
    /\ Returned /\ last.rc < 0 /\ last.getserversCalls = 0
    /\ \E c \in Calls : pc[c] = "getservers" /\ ninitCalls[c] = 1

\* C8: after a successful initialisation with at least one configured
\* nameserver, the value returned is the requested member of the first
\* entry of the list; later entries do not influence it.
C8_FirstEntryOnly ==
    (Returned /\ last.rc = 0 /\ Len(nsaddr_list) >= 1)
        => last.value = member(last.op, nsaddr_list[1])

\* C8 witness: a successful call has returned on a list whose second entry
\* differs from its first.
C8_Witness ==
    /\ Returned /\ last.rc = 0 /\ last.getserversCalls = 1
    /\ Len(nsaddr_list) >= 2 /\ nsaddr_list[2] # nsaddr_list[1]

\* C9: calls in flight together never hold the same resolver-state block,
\* the block a call is about to query still holds what its own res_ninit
\* loaded, and every call returns a value it can return when run alone.
C9_CallsDoNotInteract ==
    /\ \A c, d \in Calls :
        (c # d /\ InFlight(c) /\ InFlight(d) /\ res[c] # NULL)
            => res[c] # res[d]
    /\ \A c \in Calls :
        (InFlight(c) /\ res[c] # NULL) => heap[res[c]].st \in {"raw", "loaded"}
    /\ \A c \in Calls :
        pc[c] = "getservers" => heap[res[c]].ns = nsaddr_list
    /\ Returned => last.value \in Alone(last.op, last.rc)

\* C9 witness: two calls, of different functions, are in flight together,
\* both past their res_ninit, after an earlier call has returned.
C9_Witness ==
    /\ Returned
    /\ \E c, d \in Calls :
        /\ pc[c] = "getservers" /\ pc[d] = "getservers"
        /\ op[c] # op[d] /\ res[c] # res[d]

\* C10: res_ninit and res_getservers are never invoked with a null handle.
C10_HandleNeverNull ==
    \A c \in Calls : InFlight(c) => res[c] # NULL

===========================================================================
